---- MODULE Spec2Model ----
(***************************************************************************)
(* pcloud_sync.py: WebDAV synchronisation of the data and media trees.     *)
(*                                                                         *)
(* The program is sequential.  Its state is the position of main and of    *)
(* the function it is in (pc), the stack of active walker calls (stack),   *)
(* the retry loop of the primitive in progress (call), the value the       *)
(* change-detection policy returned (decision), and the two file trees.    *)
(* Every network request is one step whose outcome (a status code or a     *)
(* transport exception) the environment chooses.                           *)
(*                                                                         *)
(* Paths are sequences of names.  A remote path starts with "thetawave";   *)
(* a local path is relative to the assets directory, which is <<>>.        *)
(* Python's None is <<>> and a present value v is <<v>>.                    *)
(***************************************************************************)
EXTENDS Integers, Sequences, FiniteSets, TLC

VARIABLES
    argv,       \* sys.argv[1:]
    creds,      \* PCLOUD_USERNAME and PCLOUD_PASSWORD are both set
    remote,     \* the remote tree: [dirs, files], sets of remote paths
    local,      \* the local tree under assets: [dirs, files]
    pc,         \* the function main is in, or "exit"
    exit_code,  \* <<>> while running, <<n>> once the process has exited
    session,    \* get_webdav_session has returned
    execute,    \* the flag main passes to upload_to_pcloud
    idx,        \* position of the for loop over ["data", "media"] / the test listings
    totals,     \* upload_to_pcloud's total_files, total_success, total_skipped
    stack,      \* frames of download_directory_recursive / upload_directory_recursive
    call,       \* the primitive in progress and its retry loop
    decision,   \* what should_upload_file returned for the file at hand
    sent,       \* every request sent so far, as [method, timeout]
    calls,      \* history: <<function, path>> -> number of calls
    outcome,    \* history: <<function, path>> -> what the call returned (as a boolean)
    returned,   \* history: path -> the counts the walker called on it returned
    hist,       \* history of main: the usage text was printed, connection tests sent
    unit        \* a function taken on its own: its arguments and what it returned

vars == <<argv, creds, remote, local, pc, exit_code, session, execute, idx, totals,
          stack, call, decision, sent, calls, outcome, returned, hist, unit>>

-----------------------------------------------------------------------------
(* Bounds and program constants *)

\* at most this many entries (files and subdirectories) below data and media
MaxEntries == 3

\* the default of the max_retries parameter of the four primitives
max_retries == 3

None == <<>>
Some(v) == <<v>>

\* status codes a server may answer with
Statuses == {200, 201, 204, 207, 404, 500}
\* what a request can yield: a status code or a transport exception
Exc == [exc |-> TRUE, status_code |-> 0]
Responses == {[exc |-> FALSE, status_code |-> s] : s \in Statuses} \cup {Exc}

Roots == <<"data", "media">>

\* the entries a tree may have below its two roots
CandDirs  == {<<"data", "sub">>}
CandFiles == {<<"data", "a.json">>, <<"data", "y.txt">>,
              <<"data", "sub", "b.bin">>, <<"media", "x.png">>}

Parent(p) == SubSeq(p, 1, Len(p) - 1)
Last(p) == p[Len(p)]

Trees ==
    {S \in SUBSET (CandDirs \cup CandFiles) :
        /\ Cardinality(S) <= MaxEntries
        /\ \A p \in S : Len(p) > 2 => Parent(p) \in S}

RemoteOf(S) ==
    [dirs  |-> {<<"thetawave">>, <<"thetawave", "data">>, <<"thetawave", "media">>}
                 \cup {<<"thetawave">> \o d : d \in S \cap CandDirs},
     files |-> {<<"thetawave">> \o f : f \in S \cap CandFiles}]

LocalOf(S) ==
    [dirs  |-> {<<>>, <<"data">>, <<"media">>} \cup (S \cap CandDirs),
     files |-> S \cap CandFiles]

EmptyTree == [dirs |-> {}, files |-> {}]

\* a local tree: both roots present, or data missing, or assets itself missing
LocalTrees ==
    {LocalOf(S) : S \in Trees}
      \cup {[dirs |-> {<<>>, <<"media">>}, files |-> S] : S \in SUBSET {<<"media", "x.png">>}}
      \cup {EmptyTree}

RemoteTrees == {RemoteOf(S) : S \in Trees}

Argvs ==
    {<<>>, <<"download">>, <<"test">>, <<"sync">>, <<"--execute">>,
     <<"upload">>, <<"upload", "--execute">>, <<"upload", "--dry-run">>,
     <<"upload", "-v", "--execute">>, <<"download", "--execute">>}

NoCall == [fn |-> "none", path |-> <<>>, local_file |-> <<>>, attempt |-> 0,
           reqs |-> 0, mkcols |-> 0, mkcol |-> <<>>, writes |-> 0, before |-> <<>>,
           st |-> "idle", last |-> <<>>, result |-> <<>>]

\* sys.argv[1], or "" when there is none
Command == IF argv = <<>> THEN "" ELSE argv[1]

\* no function is taken on its own
NoUnit == [fn |-> "none"]

Inc(f, k) == IF k \in DOMAIN f THEN [f EXCEPT ![k] = @ + 1] ELSE f @@ (k :> 1)
Put(f, k, v) == IF k \in DOMAIN f THEN [f EXCEPT ![k] = v] ELSE f @@ (k :> v)
Count(f, k) == IF k \in DOMAIN f THEN f[k] ELSE 0

Req(method, timeout) == [method |-> method, timeout |-> timeout]

-----------------------------------------------------------------------------
(* Initial state: the process has started, nothing has run *)

Init ==
    /\ argv \in Argvs
    /\ creds \in BOOLEAN
    /\ remote \in (IF creds /\ argv # <<>> /\ argv[1] \in {"download", "test"}
                   THEN RemoteTrees ELSE {RemoteOf({})})
    /\ local \in (IF creds /\ argv # <<>> /\ argv[1] = "upload"
                  THEN LocalTrees ELSE {EmptyTree})
    /\ pc = "main"
    /\ exit_code = None
    /\ session = FALSE
    /\ execute = FALSE
    /\ idx = 1
    /\ totals = [files |-> 0, success |-> 0, skipped |-> 0]
    /\ stack = <<>>
    /\ call = NoCall
    /\ decision = None
    /\ sent = {}
    /\ calls = <<>>
    /\ outcome = <<>>
    /\ returned = <<>>
    /\ hist = [usage |-> FALSE, connects |-> 0, class |-> "none"]
    /\ unit = NoUnit

-----------------------------------------------------------------------------
(* main and get_webdav_session *)

\* sys.exit(code)
Exit(code) ==
    /\ pc' = "exit"
    /\ exit_code' = Some(code)

\* a usage text that is never printed
UsageSilent == UNCHANGED hist

\* print(__doc__)
Usage == hist' = [hist EXCEPT !.usage = TRUE]

\* a flag that is taken from any position
ExecuteFlagAnywhere(args) == \E i \in 1..Len(args) : args[i] = "--execute"

\* the flag of line 463
ExecuteFlag(args) == Len(args) > 1 /\ args[2] = "--execute"

main ==
    /\ pc = "main"
    /\ IF argv = <<>>
       THEN Exit(1) /\ Usage /\ UNCHANGED execute
       ELSE CASE argv[1] = "download" ->
                   pc' = "download_from_pcloud" /\ UNCHANGED <<exit_code, execute, hist, unit>>
              [] argv[1] = "upload" ->
                   /\ pc' = "upload_to_pcloud"
                   /\ execute' = ExecuteFlag(argv)
                   /\ UNCHANGED <<exit_code, hist, unit>>
              [] argv[1] = "test" ->
                   pc' = "test_pcloud_connection" /\ UNCHANGED <<exit_code, execute, hist, unit>>
              [] OTHER -> Exit(1) /\ Usage /\ UNCHANGED execute
    /\ UNCHANGED <<argv, creds, remote, local, session, idx, totals, stack, call,
                   decision, sent, calls, outcome, returned, unit>>

\* what kind of answer r is
StatusClass(r) ==
    IF r.exc THEN "exception"
    ELSE IF r.status_code >= 200 /\ r.status_code < 300 THEN "2xx"
    ELSE "other"

\* a connection test that only an exception fails
SessionOkAnyStatus(r) == ~r.exc

\* the statuses the connection test accepts
SessionOk(r) == ~r.exc /\ r.status_code \in {200, 207}

get_webdav_session ==
    /\ pc \in {"download_from_pcloud", "upload_to_pcloud", "test_pcloud_connection"}
    /\ ~session
    /\ IF ~creds
       THEN Exit(1) /\ UNCHANGED <<session, sent, hist, unit>>
       ELSE \E r \in Responses :
              /\ sent' = sent \cup {Req("PROPFIND", None)}
              /\ hist' = [hist EXCEPT !.connects = @ + 1, !.class = StatusClass(r)]
              /\ IF SessionOk(r)
                 THEN session' = TRUE /\ UNCHANGED <<pc, exit_code>>
                 ELSE Exit(1) /\ UNCHANGED session
    /\ UNCHANGED <<argv, creds, remote, local, execute, idx, totals, stack, call,
                   decision, calls, outcome, returned, unit>>

-----------------------------------------------------------------------------
(* The retry loop shared by the four primitives *)

\* a caller starts primitive fn on a remote path.  History kept with the call:
\* reqs, the requests of its main method; mkcols and mkcol, the MKCOL requests and
\* what the last one yielded; writes, the times it wrote the local file; before,
\* the local tree when it was called; last, the response of its last attempt
StartCall(fn, path, local_file) ==
    [fn |-> fn, path |-> path, local_file |-> local_file, attempt |-> 0, reqs |-> 0,
     mkcols |-> 0, mkcol |-> <<>>, writes |-> 0, before |-> local,
     st |-> IF fn = "upload" THEN "mkcol" ELSE "run", last |-> <<>>,
     result |-> <<>>]

\* a loop that runs once more than max_retries
MoreAttemptsOffByOne(attempt) == attempt + 1 <= max_retries

\* for attempt in range(max_retries): is there another iteration after this one
MoreAttempts(attempt) == attempt + 1 < max_retries

\* the attempt has sent its request, got r and returns value
Return(c, r, value) ==
    [c EXCEPT !.reqs = @ + 1, !.last = Some(r), !.st = "ret", !.result = value]

\* the attempt has sent its request and r is a failure: continue, or fall out of
\* the loop and return the failure value
Failed(c, r, failure) ==
    IF MoreAttempts(c.attempt)
    THEN [c EXCEPT !.reqs = @ + 1, !.last = Some(r), !.attempt = @ + 1]
    ELSE [c EXCEPT !.reqs = @ + 1, !.last = Some(r), !.attempt = @ + 1,
                   !.st = "ret", !.result = failure]

\* history of what a finished call returned
Record(c, ok) ==
    outcome' = IF c.st = "ret" THEN Put(outcome, <<c.fn, c.path>>, ok) ELSE outcome

-----------------------------------------------------------------------------
(* list_webdav_directory *)

Perms(S) ==
    {s \in [1..Cardinality(S) -> S] : \A i, j \in 1..Cardinality(S) : s[i] = s[j] => i = j}

\* one <D:response> block: its href (decoded: the path and whether a separator
\* ends it) and whether it holds <D:collection/>
Block(href, slash, collection) ==
    [has_href |-> TRUE, href |-> href, slash |-> slash, collection |-> collection]

\* the bodies a server answers a Depth: 1 PROPFIND of path with: the directory
\* itself, then its children in some order
ListingBodies(tree, path) ==
    LET kids == {p \in tree.dirs \cup tree.files : Len(p) > 0 /\ Parent(p) = path}
    IN  {<<Block(path, slash, TRUE)>> \o
            [i \in 1..Cardinality(kids) |->
                Block(order[i], slash /\ order[i] \in tree.dirs, order[i] \in tree.dirs)] :
         slash \in BOOLEAN, order \in Perms(kids)}

\* a loop that takes only the path without a trailing separator for the
\* directory itself
RECURSIVE ParseBlocksExactSelf(_, _, _, _)
ParseBlocksExactSelf(blocks, remote_path, files, directories) ==
    IF blocks = <<>> THEN [files |-> files, directories |-> directories]
    ELSE LET block == Head(blocks)
             rest  == Tail(blocks)
         IN  IF ~block.has_href
             THEN ParseBlocksExactSelf(rest, remote_path, files, directories)
             ELSE IF block.href = remote_path /\ ~block.slash
             THEN ParseBlocksExactSelf(rest, remote_path, files, directories)
             ELSE IF block.collection
             THEN IF block.href # <<>>
                  THEN ParseBlocksExactSelf(rest, remote_path, files,
                                            Append(directories, Last(block.href)))
                  ELSE ParseBlocksExactSelf(rest, remote_path, files, directories)
             ELSE IF ~block.slash /\ block.href # <<>>
                  THEN ParseBlocksExactSelf(rest, remote_path,
                                            Append(files, Last(block.href)), directories)
                  ELSE ParseBlocksExactSelf(rest, remote_path, files, directories)

\* lines 80-107: the loop over the response blocks
RECURSIVE ParseBlocks(_, _, _, _)
ParseBlocks(blocks, remote_path, files, directories) ==
    IF blocks = <<>> THEN [files |-> files, directories |-> directories]
    ELSE LET block == Head(blocks)
             rest  == Tail(blocks)
         IN  IF ~block.has_href
             THEN ParseBlocks(rest, remote_path, files, directories)
             ELSE IF block.href = remote_path
             THEN ParseBlocks(rest, remote_path, files, directories)
             ELSE IF block.collection
             THEN IF block.href # <<>>
                  THEN ParseBlocks(rest, remote_path, files,
                                   Append(directories, Last(block.href)))
                  ELSE ParseBlocks(rest, remote_path, files, directories)
             ELSE IF ~block.slash /\ block.href # <<>>
                  THEN ParseBlocks(rest, remote_path, Append(files, Last(block.href)),
                                   directories)
                  ELSE ParseBlocks(rest, remote_path, files, directories)

NoListing == [files |-> <<>>, directories |-> <<>>]

list_webdav_directory ==
    /\ call.fn = "list" /\ call.st = "run"
    /\ sent' = sent \cup {Req("PROPFIND", Some(60))}
    /\ \E r \in Responses :
         IF ~r.exc /\ r.status_code = 207
         THEN /\ call.path \in remote.dirs
              /\ \E body \in ListingBodies(remote, call.path) :
                   call' = Return(call, r, ParseBlocks(body, call.path, <<>>, <<>>))
              /\ Record(call', TRUE)
         ELSE /\ call' = Failed(call, r, NoListing)
              /\ Record(call', FALSE)
    /\ UNCHANGED <<argv, creds, remote, local, pc, exit_code, session, execute, idx,
                   totals, stack, decision, calls, returned, hist, unit>>

-----------------------------------------------------------------------------
(* download_webdav_file *)

\* the path and every directory above it
RECURSIVE Ancestors(_)
Ancestors(p) == IF p = <<>> THEN {<<>>} ELSE {p} \cup Ancestors(Parent(p))

\* local_path.mkdir(parents=True, exist_ok=True)
Mkdir(tree, p) == [tree EXCEPT !.dirs = @ \cup Ancestors(p)]

\* open(local_file, 'wb') and write
WriteFile(tree, f) == [tree EXCEPT !.files = @ \cup {f}]

\* a download that opens the local file before it looks at the status
StoredOpenFirst(tree, c, r) ==
    WriteFile(tree, c.local_file)

\* lines 133-143: the local tree after an attempt that got r: on a 200 the parent
\* directory is made and the file written, otherwise nothing is touched
Stored(tree, c, r) ==
    IF ~r.exc /\ r.status_code = 200
    THEN WriteFile(Mkdir(tree, Parent(c.local_file)), c.local_file)
    ELSE tree

download_webdav_file ==
    /\ call.fn = "download" /\ call.st = "run"
    /\ sent' = sent \cup {Req("GET", Some(120))}
    /\ \E r \in Responses :
         /\ local' = Stored(local, call, r)
         /\ IF ~r.exc /\ r.status_code = 200
            THEN /\ call' = [Return(call, r, TRUE) EXCEPT !.writes = @ + 1]
                 /\ Record(call', TRUE)
            ELSE /\ call' = Failed(call, r, FALSE)
                 /\ Record(call', FALSE)
    /\ UNCHANGED <<argv, creds, remote, pc, exit_code, session, execute, idx,
                   totals, stack, decision, calls, returned, hist, unit>>

-----------------------------------------------------------------------------
(* get_remote_file_info and should_upload_file *)

\* sizes and modification times a file may have
Sizes == {0, 10, 20}
Times == {"Mon, 01 Jan", "Tue, 02 Jan"}
Opt(S) == {None} \cup {Some(v) : v \in S}

\* what the two regular expressions find in a 207 body: each property is there
\* (under the lp1 prefix) or is not
FileInfos == [size : Opt(Sizes), modified : Opt(Times)]

\* local_file.stat()
Stats == [st_size : Sizes, st_mtime : Times]

\* a probe that takes 404 for one more failure to retry
get_remote_file_info_retry_404 ==
    /\ call.fn = "probe" /\ call.st = "run"
    /\ sent' = sent \cup {Req("PROPFIND", Some(60))}
    /\ \E r \in Responses :
         IF ~r.exc /\ r.status_code = 207
         THEN /\ \E info \in FileInfos : call' = Return(call, r, Some(info))
              /\ Record(call', TRUE)
         ELSE /\ call' = Failed(call, r, None)
              /\ Record(call', FALSE)
    /\ UNCHANGED <<argv, creds, remote, local, pc, exit_code, session, execute, idx,
                   totals, stack, decision, calls, returned, hist, unit>>

get_remote_file_info ==
    /\ call.fn = "probe" /\ call.st = "run"
    /\ sent' = sent \cup {Req("PROPFIND", Some(60))}
    /\ \E r \in Responses :
         IF ~r.exc /\ r.status_code = 207
         THEN /\ \E info \in FileInfos : call' = Return(call, r, Some(info))
              /\ Record(call', TRUE)
         ELSE IF ~r.exc /\ r.status_code = 404
         THEN /\ call' = Return(call, r, None)
              /\ Record(call', FALSE)
         ELSE /\ call' = Failed(call, r, None)
              /\ Record(call', FALSE)
    /\ UNCHANGED <<argv, creds, remote, local, pc, exit_code, session, execute, idx,
                   totals, stack, decision, calls, returned, hist, unit>>

Reason(text, from, to) == [text |-> text, from |-> from, to |-> to]

\* a policy that skips a file whose probe returned nothing
ShouldUploadSkipAbsent(remote_info, local_stat) ==
    IF remote_info = None
    THEN [upload |-> FALSE, reason |-> Reason("unchanged", None, None)]
    ELSE IF remote_info[1].size # Some(local_stat[1].st_size)
    THEN [upload |-> TRUE,
          reason |-> Reason("size changed", remote_info[1].size,
                            Some(local_stat[1].st_size))]
    ELSE [upload |-> FALSE, reason |-> Reason("unchanged", None, None)]

\* a policy that also uploads when the modification times differ
ShouldUploadByTime(remote_info, local_stat) ==
    IF remote_info = None
    THEN [upload |-> TRUE, reason |-> Reason("new file", None, None)]
    ELSE IF \/ remote_info[1].size # Some(local_stat[1].st_size)
            \/ remote_info[1].modified # Some(local_stat[1].st_mtime)
    THEN [upload |-> TRUE,
          reason |-> Reason("size changed", remote_info[1].size,
                            Some(local_stat[1].st_size))]
    ELSE [upload |-> FALSE, reason |-> Reason("unchanged", None, None)]

\* a policy that compares sizes only when the response carried one
ShouldUploadKnownSize(remote_info, local_stat) ==
    IF remote_info = None
    THEN [upload |-> TRUE, reason |-> Reason("new file", None, None)]
    ELSE IF /\ remote_info[1].size # None
            /\ remote_info[1].size # Some(local_stat[1].st_size)
    THEN [upload |-> TRUE,
          reason |-> Reason("size changed", remote_info[1].size,
                            Some(local_stat[1].st_size))]
    ELSE [upload |-> FALSE, reason |-> Reason("unchanged", None, None)]

\* lines 205-221: the decision and its reason, from what the probe returned and
\* the local file's stat (read only when the probe returned metadata, else None).
\* A reason "size changed" is printed with from (the remote size, or None) and to
\* (the local size)
ShouldUpload(remote_info, local_stat) ==
    IF remote_info = None
    THEN [upload |-> TRUE, reason |-> Reason("new file", None, None)]
    ELSE IF remote_info[1].size # Some(local_stat[1].st_size)
    THEN [upload |-> TRUE,
          reason |-> Reason("size changed", remote_info[1].size,
                            Some(local_stat[1].st_size))]
    ELSE [upload |-> FALSE, reason |-> Reason("unchanged", None, None)]

should_upload_file ==
    /\ call.fn = "probe" /\ call.st = "ret"
    /\ decision = None
    /\ \E local_stat \in (IF call.result = None THEN {None} ELSE Opt(Stats) \ {None}) :
         LET d == ShouldUpload(call.result, local_stat)
         IN  /\ decision' = Some([upload |-> d.upload, reason |-> d.reason,
                                  remote_info |-> call.result,
                                  local_stat |-> local_stat,
                                  remote_file |-> call.path,
                                  probe |-> [reqs |-> call.reqs, last |-> call.last]])
             /\ outcome' = Put(outcome, <<"should_upload", call.path>>, d.upload)
    /\ call' = NoCall
    /\ UNCHANGED <<argv, creds, remote, local, pc, exit_code, session, execute, idx,
                   totals, stack, sent, calls, returned, hist, unit>>

-----------------------------------------------------------------------------
(* upload_webdav_file *)

\* an upload that gives up when the MKCOL raises
upload_mkcol_fatal ==
    /\ call.fn = "upload" /\ call.st = "mkcol"
    /\ sent' = sent \cup {Req("MKCOL", None)}
    /\ \E r \in Responses :
         call' = IF r.exc
                 THEN [call EXCEPT !.st = "ret", !.result = FALSE, !.mkcols = @ + 1,
                                   !.mkcol = Some(r)]
                 ELSE [call EXCEPT !.st = "run", !.mkcols = @ + 1, !.mkcol = Some(r)]
    /\ Record(call', FALSE)
    /\ UNCHANGED <<argv, creds, remote, local, pc, exit_code, session, execute, idx,
                   totals, stack, decision, calls, returned, hist, unit>>

\* lines 228-234: one MKCOL for the parent directory, whatever it yields
upload_mkcol ==
    /\ call.fn = "upload" /\ call.st = "mkcol"
    /\ IF Parent(call.path) # <<>>
       THEN /\ sent' = sent \cup {Req("MKCOL", None)}
            /\ \E r \in Responses :
                 /\ call' = [call EXCEPT !.st = "run", !.mkcols = @ + 1,
                                         !.mkcol = Some(r)]
                 /\ remote' = IF ~r.exc /\ r.status_code = 201
                              THEN [remote EXCEPT !.dirs = @ \cup {Parent(call.path)}]
                              ELSE remote
       ELSE /\ call' = [call EXCEPT !.st = "run"]
            /\ UNCHANGED <<sent, remote>>
    /\ UNCHANGED <<argv, creds, local, pc, exit_code, session, execute, idx,
                   totals, stack, decision, calls, outcome, returned, hist, unit>>

\* the statuses upload_webdav_file takes for success
PutOk(r) == ~r.exc /\ r.status_code \in {200, 201, 204}

upload_webdav_file ==
    /\ call.fn = "upload" /\ call.st = "run"
    /\ sent' = sent \cup {Req("PUT", Some(120))}
    /\ \E r \in Responses :
         IF PutOk(r)
         THEN /\ call' = Return(call, r, TRUE)
              /\ remote' = [remote EXCEPT !.files = @ \cup {call.path}]
              /\ Record(call', TRUE)
         ELSE /\ call' = Failed(call, r, FALSE)
              /\ Record(call', FALSE)
              /\ UNCHANGED remote
    /\ UNCHANGED <<argv, creds, local, pc, exit_code, session, execute, idx,
                   totals, stack, decision, calls, returned, hist, unit>>

-----------------------------------------------------------------------------
(* download_directory_recursive and download_from_pcloud *)

Top == stack[Len(stack)]
Pop == SubSeq(stack, 1, Len(stack) - 1)
SetTop(f) == [stack EXCEPT ![Len(stack)] = f]
Idle == call.fn = "none" /\ decision = None

\* a call of download_directory_recursive: its first statement is the listing
DownloadFrame(remote_path, local_path) ==
    [remote_path |-> remote_path, local_path |-> local_path, st |-> "list",
     files |-> <<>>, directories |-> <<>>, fi |-> 1, di |-> 1,
     success_count |-> 0, total_files |-> 0]

EnterDownload(remote_path, local_path) ==
    /\ stack' = Append(stack, DownloadFrame(remote_path, local_path))
    /\ call' = StartCall("list", remote_path, <<>>)
    /\ calls' = Inc(Inc(calls, <<"walk", remote_path>>), <<"list", remote_path>>)

\* lines 297-309: the loop over data and media calls the walker
download_from_pcloud ==
    /\ pc = "download_from_pcloud" /\ session
    /\ stack = <<>> /\ Idle
    /\ idx <= Len(Roots)
    /\ local' = [local EXCEPT !.dirs = @ \cup {<<>>}]
    /\ EnterDownload(<<"thetawave", Roots[idx]>>, <<Roots[idx]>>)
    /\ UNCHANGED <<argv, creds, remote, pc, exit_code, session, execute, idx, totals,
                   decision, sent, outcome, returned, hist, unit>>

\* lines 262-268: the listing has returned; create the local directory
download_listed ==
    /\ stack # <<>> /\ call.fn = "list" /\ call.st = "ret"
    /\ stack' = SetTop([Top EXCEPT !.st = "walk", !.files = call.result.files,
                                    !.directories = call.result.directories])
    /\ local' = Mkdir(local, Top.local_path)
    /\ call' = NoCall
    /\ UNCHANGED <<argv, creds, remote, pc, exit_code, session, execute, idx, totals,
                   decision, sent, calls, outcome, returned, hist, unit>>

\* lines 271-276: the next file of the listing
download_file ==
    /\ pc = "download_from_pcloud" /\ stack # <<>> /\ Idle
    /\ Top.st = "walk" /\ Top.fi <= Len(Top.files)
    /\ LET filename == Top.files[Top.fi]
           remote_file == Append(Top.remote_path, filename)
       IN  /\ call' = StartCall("download", remote_file, Append(Top.local_path, filename))
           /\ calls' = Inc(calls, <<"download", remote_file>>)
    /\ UNCHANGED <<argv, creds, remote, local, pc, exit_code, session, execute, idx,
                   totals, stack, decision, sent, outcome, returned, hist, unit>>

\* a walker that counts a file only when it was downloaded
DownloadCountedOnlyOk(frame, ok) ==
    [frame EXCEPT !.success_count = IF ok THEN @ + 1 ELSE @,
                  !.total_files = IF ok THEN @ + 1 ELSE @,
                  !.fi = @ + 1]

\* a walker that leaves the loop over the files at the first failed download
DownloadCountedBreak(frame, ok) ==
    [frame EXCEPT !.success_count = IF ok THEN @ + 1 ELSE @,
                  !.total_files = @ + 1,
                  !.fi = IF ok THEN @ + 1 ELSE Len(frame.files) + 1]

\* lines 276-278: count the file
DownloadCounted(frame, ok) ==
    [frame EXCEPT !.success_count = IF ok THEN @ + 1 ELSE @,
                  !.total_files = @ + 1,
                  !.fi = @ + 1]

download_file_done ==
    /\ stack # <<>> /\ call.fn = "download" /\ call.st = "ret"
    /\ stack' = SetTop(DownloadCounted(Top, call.result))
    /\ call' = NoCall
    /\ UNCHANGED <<argv, creds, remote, local, pc, exit_code, session, execute, idx,
                   totals, decision, sent, calls, outcome, returned, hist, unit>>

\* lines 284-289: the files are done; recurse into the next subdirectory
download_subdirectory ==
    /\ pc = "download_from_pcloud" /\ stack # <<>> /\ Idle
    /\ Top.st = "walk" /\ Top.fi > Len(Top.files) /\ Top.di <= Len(Top.directories)
    /\ LET dirname == Top.directories[Top.di]
       IN  EnterDownload(Append(Top.remote_path, dirname), Append(Top.local_path, dirname))
    /\ UNCHANGED <<argv, creds, remote, local, pc, exit_code, session, execute, idx,
                   totals, decision, sent, outcome, returned, hist, unit>>

\* the tuple a walker returns
Counts(frame) == [success |-> frame.success_count, total |-> frame.total_files]

DownloadFinished(frame) ==
    /\ frame.st = "walk"
    /\ frame.fi > Len(frame.files)
    /\ frame.di > Len(frame.directories)

\* lines 290-293: add what the subdirectory returned
DownloadAdded(frame, sub) ==
    [frame EXCEPT !.success_count = @ + sub.success_count,
                  !.total_files = @ + sub.total_files,
                  !.di = @ + 1]

\* line 293, returning to the call of line 289
download_directory_return ==
    /\ pc = "download_from_pcloud" /\ Len(stack) > 1 /\ Idle
    /\ DownloadFinished(Top)
    /\ stack' = [Pop EXCEPT ![Len(stack) - 1] = DownloadAdded(@, Top)]
    /\ returned' = Put(returned, Top.remote_path, Counts(Top))
    /\ UNCHANGED <<argv, creds, remote, local, pc, exit_code, session, execute, idx,
                   totals, call, decision, sent, calls, outcome, hist, unit>>

\* a loop over the roots that stays on the root it has walked
download_root_again ==
    /\ pc = "download_from_pcloud" /\ Len(stack) = 1 /\ Idle
    /\ DownloadFinished(Top)
    /\ stack' = <<>>
    /\ returned' = Put(returned, Top.remote_path, Counts(Top))
    /\ UNCHANGED <<argv, creds, remote, local, pc, exit_code, session, execute, totals,
                   call, decision, sent, calls, outcome, hist, unit, idx>>

\* line 293, returning to the call of line 309: print the counts, next root
download_root_done ==
    /\ pc = "download_from_pcloud" /\ Len(stack) = 1 /\ Idle
    /\ DownloadFinished(Top)
    /\ stack' = <<>>
    /\ idx' = idx + 1
    /\ returned' = Put(returned, Top.remote_path, Counts(Top))
    /\ UNCHANGED <<argv, creds, remote, local, pc, exit_code, session, execute, totals,
                   call, decision, sent, calls, outcome, hist, unit>>

\* line 316: "Download completed", and main returns
download_completed ==
    /\ pc = "download_from_pcloud" /\ session
    /\ stack = <<>> /\ Idle
    /\ idx > Len(Roots)
    /\ Exit(0)
    /\ UNCHANGED <<argv, creds, remote, local, session, execute, idx, totals, stack,
                   call, decision, sent, calls, outcome, returned, hist, unit>>

-----------------------------------------------------------------------------
(* upload_directory_recursive and upload_to_pcloud *)

\* local_path.iterdir()
Items(tree, local_path) ==
    {p \in tree.dirs \cup tree.files : Len(p) > 0 /\ Parent(p) = local_path}

UploadFrame(local_path, remote_path) ==
    [local_path |-> local_path, remote_path |-> remote_path,
     todo |-> Items(local, local_path), item |-> <<>>,
     success_count |-> 0, total_files |-> 0, skipped_count |-> 0]

\* lines 376-378: no assets directory, upload_to_pcloud returns
upload_no_assets ==
    /\ pc = "upload_to_pcloud" /\ session
    /\ <<>> \notin local.dirs
    /\ Exit(0)
    /\ UNCHANGED <<argv, creds, remote, local, session, execute, idx, totals, stack,
                   call, decision, sent, calls, outcome, returned, hist, unit>>

\* lines 385-400: the loop over data and media; a missing directory is skipped
upload_to_pcloud ==
    /\ pc = "upload_to_pcloud" /\ session
    /\ <<>> \in local.dirs
    /\ stack = <<>> /\ Idle
    /\ idx <= Len(Roots)
    /\ IF <<Roots[idx]>> \notin local.dirs
       THEN /\ idx' = idx + 1
            /\ UNCHANGED <<stack, calls>>
       ELSE /\ stack' = <<UploadFrame(<<Roots[idx]>>, <<"thetawave", Roots[idx]>>)>>
            /\ calls' = Inc(calls, <<"walk", <<"thetawave", Roots[idx]>>>>)
            /\ UNCHANGED idx
    /\ UNCHANGED <<argv, creds, remote, local, pc, exit_code, session, execute, totals,
                   call, decision, sent, outcome, returned, hist, unit>>

\* lines 325-331: the next entry is a file: count it and ask should_upload_file,
\* which starts with the metadata probe
upload_item_file ==
    /\ pc = "upload_to_pcloud" /\ stack # <<>> /\ Idle
    /\ \E item \in Top.todo \cap local.files :
         LET remote_file == Append(Top.remote_path, Last(item))
         IN  /\ stack' = SetTop([Top EXCEPT !.todo = @ \ {item}, !.item = item,
                                            !.total_files = @ + 1])
             /\ call' = StartCall("probe", remote_file, item)
             /\ calls' = Inc(calls, <<"probe", remote_file>>)
    /\ UNCHANGED <<argv, creds, remote, local, pc, exit_code, session, execute, idx,
                   totals, decision, sent, outcome, returned, hist, unit>>

\* a walker whose dry run does not count the selected file
UploadDecidedDryUncounted(frame, should_upload, exec) ==
    IF should_upload
    THEN frame
    ELSE [frame EXCEPT !.skipped_count = @ + 1]

\* lines 333-342: act on the decision
\* dry run: count the file as a success; no upload: count it as skipped
UploadDecided(frame, should_upload, exec) ==
    IF should_upload
    THEN IF exec THEN frame ELSE [frame EXCEPT !.success_count = @ + 1]
    ELSE [frame EXCEPT !.skipped_count = @ + 1]

upload_decided ==
    /\ pc = "upload_to_pcloud" /\ stack # <<>> /\ call.fn = "none"
    /\ decision # None
    /\ stack' = SetTop(UploadDecided(Top, decision[1].upload, execute))
    /\ IF decision[1].upload /\ execute
       THEN /\ call' = StartCall("upload", decision[1].remote_file, Top.item)
            /\ calls' = Inc(calls, <<"upload", decision[1].remote_file>>)
       ELSE UNCHANGED <<call, calls>>
    /\ decision' = None
    /\ UNCHANGED <<argv, creds, remote, local, pc, exit_code, session, execute, idx,
                   totals, sent, outcome, returned, hist, unit>>

\* a walker that counts every upload it started
UploadCountedAlways(frame, ok) ==
    [frame EXCEPT !.success_count = @ + 1]

\* lines 336-337: count the file when the upload succeeded
UploadCounted(frame, ok) ==
    [frame EXCEPT !.success_count = IF ok THEN @ + 1 ELSE @]

upload_file_done ==
    /\ stack # <<>> /\ call.fn = "upload" /\ call.st = "ret"
    /\ stack' = SetTop(UploadCounted(Top, call.result))
    /\ call' = NoCall
    /\ UNCHANGED <<argv, creds, remote, local, pc, exit_code, session, execute, idx,
                   totals, decision, sent, calls, outcome, returned, hist, unit>>

\* lines 344-350: the next entry is a directory: recurse
upload_item_dir ==
    /\ pc = "upload_to_pcloud" /\ stack # <<>> /\ Idle
    /\ \E item \in Top.todo \cap local.dirs :
         LET sub_remote_path == Append(Top.remote_path, Last(item))
         IN  /\ stack' = Append(SetTop([Top EXCEPT !.todo = @ \ {item}, !.item = item]),
                                UploadFrame(item, sub_remote_path))
             /\ calls' = Inc(calls, <<"walk", sub_remote_path>>)
    /\ UNCHANGED <<argv, creds, remote, local, pc, exit_code, session, execute, idx,
                   totals, call, decision, sent, outcome, returned, hist, unit>>

UploadCounts(frame) ==
    [success |-> frame.success_count, total |-> frame.total_files,
     skipped |-> frame.skipped_count]

\* lines 359-361: add what the subdirectory returned
UploadAdded(frame, sub) ==
    [frame EXCEPT !.success_count = @ + sub.success_count,
                  !.total_files = @ + sub.total_files,
                  !.skipped_count = @ + sub.skipped_count]

\* line 363, returning to the call of line 348
upload_directory_return ==
    /\ pc = "upload_to_pcloud" /\ Len(stack) > 1 /\ Idle
    /\ Top.todo = {}
    /\ stack' = [Pop EXCEPT ![Len(stack) - 1] = UploadAdded(@, Top)]
    /\ returned' = Put(returned, Top.remote_path, UploadCounts(Top))
    /\ UNCHANGED <<argv, creds, remote, local, pc, exit_code, session, execute, idx,
                   totals, call, decision, sent, calls, outcome, hist, unit>>

\* line 363, returning to the call of line 398: lines 402-404 add up the totals
upload_root_done ==
    /\ pc = "upload_to_pcloud" /\ Len(stack) = 1 /\ Idle
    /\ Top.todo = {}
    /\ stack' = <<>>
    /\ idx' = idx + 1
    /\ totals' = [files   |-> totals.files + Top.total_files,
                  success |-> totals.success + Top.success_count,
                  skipped |-> totals.skipped + Top.skipped_count]
    /\ returned' = Put(returned, Top.remote_path, UploadCounts(Top))
    /\ UNCHANGED <<argv, creds, remote, local, pc, exit_code, session, execute,
                   call, decision, sent, calls, outcome, hist, unit>>

\* an upload that reports failed transfers in its exit status
upload_completed_status ==
    /\ pc = "upload_to_pcloud" /\ session
    /\ <<>> \in local.dirs
    /\ stack = <<>> /\ Idle
    /\ idx > Len(Roots)
    /\ Exit(IF totals.success + totals.skipped < totals.files THEN 1 ELSE 0)
    /\ UNCHANGED <<argv, creds, remote, local, session, execute, idx, totals, stack,
                   call, decision, sent, calls, outcome, returned, hist, unit>>

\* lines 415-430: the summary, and main returns
upload_completed ==
    /\ pc = "upload_to_pcloud" /\ session
    /\ <<>> \in local.dirs
    /\ stack = <<>> /\ Idle
    /\ idx > Len(Roots)
    /\ Exit(0)
    /\ UNCHANGED <<argv, creds, remote, local, session, execute, idx, totals, stack,
                   call, decision, sent, calls, outcome, returned, hist, unit>>

-----------------------------------------------------------------------------
(* test_pcloud_connection *)

TestPaths == <<<<"thetawave">>, <<"thetawave", "data">>, <<"thetawave", "media">>>>

\* lines 439, 444, 449: the next listing
test_pcloud_connection ==
    /\ pc = "test_pcloud_connection" /\ session /\ Idle
    /\ idx <= Len(TestPaths)
    /\ call' = StartCall("list", TestPaths[idx], <<>>)
    /\ calls' = Inc(calls, <<"list", TestPaths[idx]>>)
    /\ UNCHANGED <<argv, creds, remote, local, pc, exit_code, session, execute, idx,
                   totals, stack, decision, sent, outcome, returned, hist, unit>>

\* the listing has returned and is printed
test_listed ==
    /\ pc = "test_pcloud_connection"
    /\ call.fn = "list" /\ call.st = "ret"
    /\ call' = NoCall
    /\ idx' = idx + 1
    /\ UNCHANGED <<argv, creds, remote, local, pc, exit_code, session, execute,
                   totals, stack, decision, sent, calls, outcome, returned, hist, unit>>

test_completed ==
    /\ pc = "test_pcloud_connection" /\ session /\ Idle
    /\ idx > Len(TestPaths)
    /\ Exit(0)
    /\ UNCHANGED <<argv, creds, remote, local, session, execute, idx, totals, stack,
                   call, decision, sent, calls, outcome, returned, hist, unit>>

-----------------------------------------------------------------------------

Next ==
    \/ main
    \/ get_webdav_session
    \/ list_webdav_directory
    \/ download_webdav_file
    \/ get_remote_file_info
    \/ should_upload_file
    \/ upload_mkcol
    \/ upload_webdav_file
    \/ download_from_pcloud
    \/ download_listed
    \/ download_file
    \/ download_file_done
    \/ download_subdirectory
    \/ download_directory_return
    \/ download_root_done
    \/ download_completed
    \/ upload_no_assets
    \/ upload_to_pcloud
    \/ upload_item_file
    \/ upload_decided
    \/ upload_file_done
    \/ upload_item_dir
    \/ upload_directory_return
    \/ upload_root_done
    \/ upload_completed
    \/ test_pcloud_connection
    \/ test_listed
    \/ test_completed

Spec == Init /\ [][Next]_vars

-----------------------------------------------------------------------------
(* A download run.  The program is one thread that runs until it returns or
   exits, and every request is taken to return a response or raise: a step that
   can be taken is taken *)

InitDownload ==
    /\ Init
    /\ Command = "download"

NextDownload ==
    \/ main
    \/ get_webdav_session
    \/ download_from_pcloud
    \/ list_webdav_directory
    \/ download_listed
    \/ download_file
    \/ download_webdav_file
    \/ download_file_done
    \/ download_subdirectory
    \/ download_directory_return
    \/ download_root_done
    \/ download_completed

SpecDownload == InitDownload /\ [][NextDownload]_vars /\ WF_vars(NextDownload)

-----------------------------------------------------------------------------
(* The parse of list_webdav_directory, on any 207 body *)

\* the state of the process while one function is taken on its own
Parked ==
    /\ argv = <<>> /\ creds = FALSE
    /\ remote = RemoteOf({}) /\ local = EmptyTree
    /\ pc = "main" /\ exit_code = None
    /\ session = FALSE /\ execute = FALSE
    /\ idx = 1 /\ totals = [files |-> 0, success |-> 0, skipped |-> 0]
    /\ stack = <<>> /\ call = NoCall /\ decision = None
    /\ sent = {} /\ calls = <<>> /\ outcome = <<>> /\ returned = <<>>
    /\ hist = [usage |-> FALSE, connects |-> 0, class |-> "none"]

\* at most this many <D:response> blocks in a body
MaxBlocks == 3

\* the directory listed and the decoded hrefs a body may hold: the service root
\* "/", a directory above the one listed, the one listed, a file and a directory
\* below it
ListerPath == <<"thetawave", "data">>
ListerHrefs ==
    {<<>>, <<"thetawave">>, ListerPath,
     ListerPath \o <<"a.json">>, ListerPath \o <<"sub">>}

\* a block the href pattern of line 82 does not match
NoHref(collection) ==
    [has_href |-> FALSE, href |-> <<>>, slash |-> FALSE, collection |-> collection]

\* any block: with or without an href, with or without a trailing separator,
\* with or without <D:collection/>
ListerBlocks ==
    {NoHref(c) : c \in BOOLEAN}
      \cup {b \in {Block(h, sl, c) : h \in ListerHrefs, sl \in BOOLEAN, c \in BOOLEAN} :
               b.href = <<>> => b.slash}

ListerBodies == UNION {[1..n -> ListerBlocks] : n \in 0..MaxBlocks}

InitLister ==
    /\ Parked
    /\ unit \in {[fn |-> "list", st |-> "body", blocks |-> body,
                   remote_path |-> ListerPath, result |-> NoListing] :
                  body \in ListerBodies}

\* lines 76-109: the body is split into blocks and parsed
parse_listing ==
    /\ unit.fn = "list" /\ unit.st = "body"
    /\ unit' = [unit EXCEPT !.st = "parsed",
                            !.result = ParseBlocks(unit.blocks, unit.remote_path,
                                                   <<>>, <<>>)]
    /\ UNCHANGED <<argv, creds, remote, local, pc, exit_code, session, execute, idx,
                   totals, stack, call, decision, sent, calls, outcome, returned, hist>>

NextLister == parse_listing

SpecLister == InitLister /\ [][NextLister]_vars

-----------------------------------------------------------------------------
(* get_webdav_url, on any path.  A string is a sequence of characters; a
   character is a one-letter string, or the name of one that cannot be typed:
   QUOT is the double quote, NUL, STX and ENQ the bytes 0, 2 and 5 *)

base_url == "https://webdav.pcloud.com"

\* the letters and digits at hand, which quote never encodes
AlwaysSafe == {"x", "P", "R", "U", "0", "2", "5"}

\* the digits at hand that unquote reads as hexadecimal
HexDigits == {"0", "2", "5"}

\* the characters quote encodes, and the two hexadecimal digits of each byte
Escaped == {" ", "%", "QUOT", "NUL", "STX", "ENQ"}
Ord(c) ==
    CASE c = "NUL"  -> <<"0", "0">>
      [] c = "STX"  -> <<"0", "2">>
      [] c = "ENQ"  -> <<"0", "5">>
      [] c = " "    -> <<"2", "0">>
      [] c = "QUOT" -> <<"2", "2">>
      [] c = "%"    -> <<"2", "5">>
      [] c = "P"    -> <<"5", "0">>
      [] c = "R"    -> <<"5", "2">>
      [] c = "U"    -> <<"5", "5">>

\* the character of a byte given by two hexadecimal digits
Chr(h) == CHOOSE c \in Escaped \cup {"P", "R", "U"} : Ord(c) = h

\* urllib.parse.quote(string, safe)
RECURSIVE quote(_, _)
quote(string, safe) ==
    IF string = <<>> THEN <<>>
    ELSE LET c == Head(string)
         IN  (IF c \in AlwaysSafe \cup safe THEN <<c>> ELSE <<"%">> \o Ord(c))
               \o quote(Tail(string), safe)

\* a lister that takes the href as it is
unquote_nothing(string) == string

\* urllib.parse.unquote(string): every % followed by two hexadecimal digits is
\* the byte they give, anything else stays
RECURSIVE unquote(_)
unquote(string) ==
    IF string = <<>> THEN <<>>
    ELSE IF /\ Head(string) = "%" /\ Len(string) >= 3
            /\ string[2] \in HexDigits /\ string[3] \in HexDigits
    THEN <<Chr(<<string[2], string[3]>>)>> \o unquote(SubSeq(string, 4, Len(string)))
    ELSE <<Head(string)>> \o unquote(Tail(string))

\* a codec that puts a separator before every path
get_webdav_url_always_prefixed(base, path) ==
    <<base>> \o quote(<<"/">> \o path, {"/"})

\* lines 54-59: the URL as the base followed by the characters of the path part
get_webdav_url(base, path) ==
    LET rooted == IF path # <<>> /\ Head(path) = "/" THEN path ELSE <<"/">> \o path
    IN  <<base>> \o quote(rooted, {"/"})

\* the strings of at most n characters of A
Strings(A, n) == UNION {[1..k -> A] : k \in 0..n}

\* the paths get_webdav_url is given: at most MaxLen characters, a separator, a
\* letter, a space or a percent sign each
MaxLen == 4
UrlChars == {"/", "x", " ", "%"}

InitUrl ==
    /\ Parked
    /\ unit \in {[fn |-> "url", st |-> "path", path |-> path, url |-> <<>>] :
                  path \in Strings(UrlChars, MaxLen)}

build_url ==
    /\ unit.fn = "url" /\ unit.st = "path"
    /\ unit' = [unit EXCEPT !.st = "built", !.url = get_webdav_url(base_url, unit.path)]
    /\ UNCHANGED <<argv, creds, remote, local, pc, exit_code, session, execute, idx,
                   totals, stack, call, decision, sent, calls, outcome, returned, hist>>

NextUrl == build_url

SpecUrl == InitUrl /\ [][NextUrl]_vars

-----------------------------------------------------------------------------
(* A name from the listing back to a URL: the lister decodes the href the
   remote reported and takes its last segment, the walker joins it to the path
   it listed, and the primitive it calls builds the URL of the joined path *)

\* the names an entry may have on the remote, of at most MaxName characters
\* other than the separator; a directory is entered while its path has at most
\* MaxPath characters
MaxName == 3
MaxPath == 4
NameChars == {"x", " ", "%", "2", "0"}
RemoteNames == Strings(NameChars, MaxName) \ {<<>>}

\* what the remote may put in the href for a name: the name percent-encoded as
\* quote encodes it, or any such string as it is
ReportedNames == {quote(n, {"/"}) : n \in RemoteNames} \cup RemoteNames

\* the walk starts at a directory of unreserved characters (/x for
\* /thetawave/data)
WalkRoot == <<"/", "x">>

\* str.rstrip('/')
RECURSIVE RStrip(_)
RStrip(string) ==
    IF string # <<>> /\ string[Len(string)] = "/"
    THEN RStrip(SubSeq(string, 1, Len(string) - 1))
    ELSE string

\* str.split('/')[-1]
RECURSIVE LastSegment(_)
LastSegment(string) ==
    IF string = <<>> \/ string[Len(string)] = "/" THEN <<>>
    ELSE Append(LastSegment(SubSeq(string, 1, Len(string) - 1)), string[Len(string)])

Listing(path) ==
    [fn |-> "walk", st |-> "listing", remote_path |-> path, href |-> <<>>,
     is_collection |-> FALSE, name |-> <<>>, child |-> <<>>, url |-> <<>>]

InitWalk ==
    /\ Parked
    /\ unit = Listing(WalkRoot)

\* lines 86-106: an entry of the response, its href decoded and its name taken
listed_entry ==
    /\ unit.fn = "walk" /\ unit.st = "listing"
    /\ \E reported \in ReportedNames, is_collection \in BOOLEAN, slash \in BOOLEAN :
         /\ slash => is_collection
         /\ LET href == quote(unit.remote_path, {"/"}) \o <<"/">> \o reported
                           \o (IF slash THEN <<"/">> ELSE <<>>)
                decoded_href == unquote(href)
            IN  unit' = [unit EXCEPT
                          !.st = "named",
                          !.href = href,
                          !.is_collection = is_collection,
                          !.name = IF is_collection
                                   THEN LastSegment(RStrip(decoded_href))
                                   ELSE LastSegment(decoded_href)]
    /\ UNCHANGED <<argv, creds, remote, local, pc, exit_code, session, execute, idx,
                   totals, stack, call, decision, sent, calls, outcome, returned, hist>>

\* lines 273 and 286, then line 63 or 128: the name is joined to the path listed
\* and the primitive called on the joined path builds its URL
joined_child ==
    /\ unit.fn = "walk" /\ unit.st = "named"
    /\ LET child == unit.remote_path \o <<"/">> \o unit.name
       IN  unit' = [unit EXCEPT !.st = "requested",
                                !.child = child,
                                !.url = get_webdav_url(base_url, child)]
    /\ UNCHANGED <<argv, creds, remote, local, pc, exit_code, session, execute, idx,
                   totals, stack, call, decision, sent, calls, outcome, returned, hist>>

\* line 289: the walker enters the directory
entered_child ==
    /\ unit.fn = "walk" /\ unit.st = "requested"
    /\ unit.is_collection /\ Len(unit.child) <= MaxPath
    /\ unit' = Listing(unit.child)
    /\ UNCHANGED <<argv, creds, remote, local, pc, exit_code, session, execute, idx,
                   totals, stack, call, decision, sent, calls, outcome, returned, hist>>

\* lines 271 and 284: the loops go on with the next entry
next_entry ==
    /\ unit.fn = "walk" /\ unit.st = "requested"
    /\ unit' = Listing(unit.remote_path)
    /\ UNCHANGED <<argv, creds, remote, local, pc, exit_code, session, execute, idx,
                   totals, stack, call, decision, sent, calls, outcome, returned, hist>>

NextWalk ==
    \/ listed_entry
    \/ joined_child
    \/ entered_child
    \/ next_entry

SpecWalk == InitWalk /\ [][NextWalk]_vars

-----------------------------------------------------------------------------
(* Properties of the primitives *)

Primitives == {"list", "download", "upload", "probe"}

\* r makes an attempt of primitive fn fail and be retried
IsFailure(fn, r) ==
    \/ r.exc
    \/ CASE fn = "list"     -> r.status_code # 207
         [] fn = "download" -> r.status_code # 200
         [] fn = "upload"   -> r.status_code \notin {200, 201, 204}
         [] fn = "probe"    -> r.status_code \notin {207, 404}

\* the call returned the failure value of its primitive
ReturnedFailure(c) ==
    CASE c.fn = "list"     -> c.result = [files |-> <<>>, directories |-> <<>>]
      [] c.fn = "download" -> c.result = FALSE
      [] c.fn = "upload"   -> c.result = FALSE
      [] c.fn = "probe"    -> c.result = <<>>

\* C1: a primitive never sends more than max_retries requests of its main method,
\* and a call whose attempts all failed (it returned on a failing response) has
\* sent exactly max_retries of them and returns its failure value; while fewer
\* have been sent after a failure the call is still running.
C1_RetryExhaustion ==
    call.fn \in Primitives =>
        /\ call.reqs <= max_retries
        /\ (call.last # None /\ IsFailure(call.fn, call.last[1])) =>
              IF call.reqs = max_retries
              THEN call.st = "ret" /\ ReturnedFailure(call)
              ELSE call.st = "run"

C1_Witness ==
    /\ call.fn = "upload" /\ call.st = "ret"
    /\ call.reqs = max_retries
    /\ call.last = Some(Exc)
    /\ call.result = FALSE

\* C5: should_upload_file answers (True, "new file") whenever the probe returned
\* None, after a 404 as well as after max_retries failed attempts.
C5_AbsentIsNewFile ==
    /\ (call.fn = "probe" /\ call.st = "ret" /\ call.last[1].status_code # 207) =>
          call.result = None
    /\ (decision # None /\ decision[1].remote_info = None) =>
          /\ decision[1].upload
          /\ decision[1].reason = Reason("new file", None, None)

\* the probe failed max_retries times, the last time with a 500, and the file is
\* taken for new
C5_Witness ==
    /\ decision # None
    /\ decision[1].remote_info = None
    /\ decision[1].probe.reqs = max_retries
    /\ decision[1].probe.last[1].status_code = 500
    /\ decision[1].upload

\* C6: whenever the probe returned metadata whose size equals the local size,
\* should_upload_file answers (False, "unchanged"), whatever the two modification
\* times are.
C6_EqualSizeUnchanged ==
    (/\ decision # None
     /\ decision[1].remote_info # None
     /\ decision[1].remote_info[1].size = Some(decision[1].local_stat[1].st_size)) =>
        /\ ~decision[1].upload
        /\ decision[1].reason = Reason("unchanged", None, None)

\* equal sizes, different modification times
C6_Witness ==
    /\ decision # None
    /\ decision[1].remote_info # None
    /\ decision[1].remote_info[1].size = Some(decision[1].local_stat[1].st_size)
    /\ decision[1].remote_info[1].modified # None
    /\ decision[1].remote_info[1].modified # Some(decision[1].local_stat[1].st_mtime)
    /\ ~decision[1].upload

\* C7: whenever the probe returned metadata whose size is not the local size (a
\* different number, or no size at all), should_upload_file answers True with the
\* reason "size changed" carrying the remote size as reported and the local size.
C7_SizeChanged ==
    (/\ decision # None
     /\ decision[1].remote_info # None
     /\ decision[1].remote_info[1].size # Some(decision[1].local_stat[1].st_size)) =>
        /\ decision[1].upload
        /\ decision[1].reason.text = "size changed"
        /\ decision[1].reason.from = decision[1].remote_info[1].size
        /\ decision[1].reason.to = Some(decision[1].local_stat[1].st_size)

\* the 207 response carried no content length
C7_Witness ==
    /\ decision # None
    /\ decision[1].remote_info # None
    /\ decision[1].remote_info[1].size = None
    /\ decision[1].upload
    /\ decision[1].reason.from = None

\* C8: a 404 ends the probe at once with None, at whichever attempt it arrives;
\* any other failure leaves the probe running until max_retries requests are sent.
C8_NotFoundImmediate ==
    (call.fn = "probe" /\ call.last # None) =>
        LET r == call.last[1]
        IN  /\ (~r.exc /\ r.status_code = 404) => (call.st = "ret" /\ call.result = None)
            /\ IsFailure("probe", r) =>
                  IF call.reqs < max_retries
                  THEN call.st = "run"
                  ELSE call.st = "ret" /\ call.result = None

\* the 404 arrives at the second attempt
C8_Witness ==
    /\ call.fn = "probe" /\ call.st = "ret"
    /\ call.reqs = 2
    /\ call.last # None /\ call.last[1].status_code = 404
    /\ call.result = None

-----------------------------------------------------------------------------
(* Properties of the walkers and of main *)

\* q is path or lies below it
Under(path, q) == Len(q) >= Len(path) /\ SubSeq(q, 1, Len(path)) = path

\* the call of fn on path p has returned, with success / with failure
Ok(fn, p) == <<fn, p>> \in DOMAIN outcome /\ outcome[<<fn, p>>]
Ko(fn, p) == <<fn, p>> \in DOMAIN outcome /\ ~outcome[<<fn, p>>]

\* the paths below path on which fn returned success / failure
AllOk(fn, path) == {k[2] : k \in {k \in DOMAIN outcome : k[1] = fn /\ Ok(fn, k[2]) /\ Under(path, k[2])}}
AllKo(fn, path) == {k[2] : k \in {k \in DOMAIN outcome : k[1] = fn /\ Ko(fn, k[2]) /\ Under(path, k[2])}}

\* the local path of a remote path and back
LocalPath(p) == Tail(p)
RemotePath(p) == <<"thetawave">> \o p

\* an upload whose second argument is not exactly --execute
DryRun == Command = "upload" /\ ~(Len(argv) >= 2 /\ argv[2] = "--execute")

\* the files change detection selected below path: what a dry run counts
Selected(path) == AllOk("should_upload", path)

\* C2 as stated: the success count an upload walk returns is the number of files
\* change detection selected, which is the count of a dry run on the same probe
\* answers, in execute mode as well as in a dry run.
C2_DryRunEqualsExecute ==
    Command = "upload" =>
        \A path \in DOMAIN returned :
            returned[path].success = Cardinality(Selected(path))

\* C2 amended: the success count of an upload walk is the number of files change
\* detection selected (the dry-run count) less the selected files whose upload
\* failed on all retries; no upload is tried, so none fails, in a dry run.
C2_ExecuteCountsSucceededUploads ==
    Command = "upload" =>
        \A path \in DOMAIN returned :
            /\ AllKo("upload", path) \subseteq Selected(path)
            /\ returned[path].success =
                  Cardinality(Selected(path)) - Cardinality(AllKo("upload", path))
            /\ ~execute => AllKo("upload", path) = {}

\* an execute walk in which one selected upload failed and another succeeded
C2_Witness ==
    /\ execute
    /\ <<"thetawave", "data">> \in DOMAIN returned
    /\ returned[<<"thetawave", "data">>].success = 1
    /\ Cardinality(Selected(<<"thetawave", "data">>)) = 2
    /\ Cardinality(AllKo("upload", <<"thetawave", "data">>)) = 1

\* C3: an upload is a dry run unless argv[2] is exactly --execute; a dry run sends
\* PROPFIND requests only, and the success count a walk returns is the number of
\* files change detection selected.
C3_DryRunSendsNoWrite ==
    /\ (Command = "upload" /\ pc # "main") => (execute <=> ~DryRun)
    /\ DryRun =>
          /\ \A q \in sent : q.method = "PROPFIND"
          /\ \A k \in DOMAIN calls : k[1] # "upload"
          /\ \A path \in DOMAIN returned :
                returned[path].success = Cardinality(Selected(path))

\* --execute in third place: a dry run that has selected two files and skipped one
C3_Witness ==
    /\ argv = <<"upload", "-v", "--execute">>
    /\ pc = "exit"
    /\ totals.success = 2 /\ totals.skipped = 1
    /\ sent # {}

\* the remote files below path the walker gets to see: those of a directory whose
\* listing succeeded
Seen(path) == {f \in remote.files : Under(path, f) /\ Ok("list", Parent(f))}

\* the remote directories below path the walker is called on
Walked(path) ==
    {d \in remote.dirs : Under(path, d) /\ (d = path \/ Ok("list", Parent(d)))}

C9_FailuresDoNotAbort ==
    /\ Command = "download" =>
          /\ \A path \in DOMAIN returned :
                /\ \A f \in Seen(path) : Count(calls, <<"download", f>>) = 1
                /\ \A d \in Walked(path) : Count(calls, <<"walk", d>>) = 1 /\ d \in DOMAIN returned
                /\ returned[path].total - returned[path].success
                      = Cardinality(AllKo("download", path))
          /\ (pc = "exit" /\ session) =>
                /\ exit_code = Some(0)
                /\ \A i \in 1..Len(Roots) : <<"thetawave", Roots[i]>> \in DOMAIN returned
    /\ Command = "upload" =>
          /\ \A path \in DOMAIN returned :
                LET files == {f \in local.files : Under(LocalPath(path), f)}
                    dirs  == {d \in local.dirs : Under(LocalPath(path), d)}
                IN  /\ \A f \in files : Count(calls, <<"probe", RemotePath(f)>>) = 1
                    /\ \A d \in dirs : Count(calls, <<"walk", RemotePath(d)>>) = 1
                                          /\ RemotePath(d) \in DOMAIN returned
                    /\ returned[path].total = Cardinality(files)
                    /\ returned[path].total - returned[path].success - returned[path].skipped
                          = Cardinality(AllKo("upload", path))
          /\ (pc = "exit" /\ session) =>
                /\ exit_code = Some(0)
                /\ \A i \in 1..Len(Roots) :
                      <<Roots[i]>> \in local.dirs => <<"thetawave", Roots[i]>> \in DOMAIN returned

\* the download of a.json failed on all retries; y.txt, listed with it, and the
\* subdirectory sub were visited after it, and the run ended
C9_Witness ==
    /\ Command = "download" /\ pc = "exit"
    /\ Ko("download", <<"thetawave", "data", "a.json">>)
    /\ Ok("download", <<"thetawave", "data", "y.txt">>)
    /\ <<"thetawave", "data", "sub">> \in DOMAIN returned
    /\ returned[<<"thetawave", "data">>] = [success |-> 1, total |-> 2]

ValidCommand == Command \in {"download", "upload", "test"}

\* C10 as stated: the exit status is decided by the first argument alone.
C10_ExitCodeByArgumentOnly ==
    exit_code # None => (exit_code = Some(0) <=> ValidCommand)

\* C10 amended: the exit status is 1 when the first argument is missing or
\* unknown and when the session could not be opened (a credential missing, or
\* the connection test raising or answering other than 200 or 207), before any
\* listing, probe or transfer; once the session is open the status is 0 whatever
\* the listings, probes and transfers yield.
C10_ExitCodeByArgumentAndSession ==
    /\ exit_code # None =>
          exit_code = Some(IF ValidCommand /\ session THEN 0 ELSE 1)
    /\ ~session => calls = <<>>
    /\ (session /\ exit_code # None) =>
          \A i \in 1..Len(Roots) :
              (Command = "download" \/ (Command = "upload" /\ <<Roots[i]>> \in local.dirs))
                  => <<"thetawave", Roots[i]>> \in DOMAIN returned

\* upload --execute ends with 0 although an upload failed on all retries
C10_Witness ==
    /\ argv = <<"upload", "--execute">>
    /\ exit_code = Some(0)
    /\ AllKo("upload", <<"thetawave">>) # {}

-----------------------------------------------------------------------------
(* Properties of the command dispatch, the session and the requests *)

\* C11: when the first argument is missing or is not download, upload or test,
\* the program prints the usage text and exits with a status other than 0; it
\* opens no session and sends no request.
C11_UnknownCommandUsage ==
    ~ValidCommand =>
        /\ sent = {} /\ ~session /\ hist.connects = 0 /\ calls = <<>>
        /\ pc \in {"main", "exit"}
        /\ pc = "exit" => (hist.usage /\ exit_code # None /\ exit_code # Some(0))

C11_Witness ==
    /\ argv = <<"sync">>
    /\ pc = "exit" /\ exit_code = Some(1)
    /\ hist.usage /\ sent = {}

\* C12: the session is opened at most once.  With a credential missing no request
\* is sent and the process exits with 1.  Otherwise one PROPFIND is sent to the
\* service root; if it raises or answers outside the success class (and also on
\* a success status other than 200 and 207) the process exits with 1, and no
\* listing, probe or transfer request is sent before the session is open.
C12_SessionFatal ==
    /\ hist.connects <= 1
    /\ ~creds => (sent = {} /\ hist.connects = 0 /\ ~session)
    /\ (~creds /\ ValidCommand /\ pc # "main") =>
          (pc = "exit" => exit_code = Some(1))
    /\ session => (creds /\ hist.connects = 1 /\ hist.class = "2xx")
    /\ ~session =>
          /\ calls = <<>> /\ call.fn = "none" /\ stack = <<>>
          /\ sent \subseteq {Req("PROPFIND", None)}
          /\ Cardinality(sent) = hist.connects
    /\ hist.class \in {"exception", "other"} =>
          (~session /\ pc = "exit" /\ exit_code = Some(1))
    /\ (hist.connects = 1 /\ ~session) => (pc = "exit" /\ exit_code = Some(1))

\* the connection test raised: one request, exit 1, nothing else sent
C12_Witness ==
    /\ creds /\ ValidCommand
    /\ hist.connects = 1 /\ hist.class = "exception"
    /\ pc = "exit" /\ exit_code = Some(1)
    /\ sent = {Req("PROPFIND", None)}

\* C13: every request sent carries a timeout: 60 for PROPFIND (the connection
\* test included) and MKCOL, 120 for GET and PUT.
C13_EveryRequestHasTimeout ==
    \A q \in sent :
        /\ q.timeout # None
        /\ q.method \in {"GET", "PUT"} => q.timeout = Some(120)
        /\ q.method = "PROPFIND" => q.timeout = Some(60)

\* C14: upload_webdav_file sends one MKCOL, before its first PUT and never again;
\* whatever the MKCOL yields the PUT attempts follow, and the call returns True
\* exactly when its last PUT was answered 200, 201 or 204.
C14_MkcolBestEffort ==
    call.fn = "upload" =>
        /\ call.mkcols = (IF call.st = "mkcol" THEN 0 ELSE 1)
        /\ call.st = "mkcol" => (call.reqs = 0 /\ call.mkcol = None)
        /\ call.st # "mkcol" => call.mkcol # None
        /\ call.st = "ret" =>
              /\ call.reqs >= 1
              /\ call.result <=> PutOk(call.last[1])

\* the MKCOL raised, the first PUT failed, the second PUT stored the file
C14_Witness ==
    /\ call.fn = "upload" /\ call.st = "ret"
    /\ call.mkcol = Some(Exc)
    /\ call.mkcols = 1 /\ call.reqs = 2
    /\ call.result = TRUE

\* C19: in an upload walk success + skipped <= total holds in every active call
\* of the walker, in every returned triple and in the totals.  A dry run returns
\* success + skipped = total; an execute run returns total - success - skipped =
\* the number of selected files whose upload failed on all retries.  No file is
\* probed or uploaded twice, and when a walk returns every local file below it
\* has been probed.
C19_UploadCounters ==
    Command = "upload" =>
        /\ \A i \in 1..Len(stack) :
              stack[i].success_count + stack[i].skipped_count <= stack[i].total_files
        /\ totals.success + totals.skipped <= totals.files
        /\ \A k \in DOMAIN calls : k[1] \in {"probe", "upload"} => calls[k] = 1
        /\ \A path \in DOMAIN returned :
              LET t == returned[path]
              IN  /\ t.success + t.skipped <= t.total
                  /\ ~execute => t.success + t.skipped = t.total
                  /\ execute => t.total - t.success - t.skipped
                                   = Cardinality(Selected(path) \cap AllKo("upload", path))
                  /\ \A f \in local.files :
                        Under(LocalPath(path), f) =>
                            Count(calls, <<"probe", RemotePath(f)>>) = 1

\* an execute walk of three files: one uploaded, one skipped, one failed
C19_Witness ==
    /\ execute
    /\ <<"thetawave", "data">> \in DOMAIN returned
    /\ <<"thetawave", "media">> \in DOMAIN returned
    /\ returned[<<"thetawave", "data">>] = [success |-> 1, total |-> 2, skipped |-> 1]
    /\ returned[<<"thetawave", "media">>] = [success |-> 0, total |-> 1, skipped |-> 0]
    /\ AllKo("upload", <<"thetawave", "media">>) = {<<"thetawave", "media", "x.png">>}

-----------------------------------------------------------------------------
(* Properties of the parse of a listing *)

\* the blocks with an href other than the path listed, in the order of the body
Remaining(blocks, path) ==
    LET keep(b) == b.has_href /\ b.href # path
    IN  SelectSeq(blocks, keep)

Containers(blocks) ==
    LET keep(b) == b.collection
    IN  SelectSeq(blocks, keep)

NonContainers(blocks) ==
    LET keep(b) == ~b.collection
    IN  SelectSeq(blocks, keep)

\* the last path segment of an entry; the service root has none
NameOf(b) == IF b.href = <<>> THEN "" ELSE Last(b.href)
Names(blocks) == [i \in 1..Len(blocks) |-> NameOf(blocks[i])]

\* the entries the parse finds a name for: a container whose path is not the
\* service root, a non-container whose path does not end with a separator
Named(blocks) ==
    LET keep(b) == b.href # <<>> /\ (b.collection \/ ~b.slash)
    IN  SelectSeq(blocks, keep)

\* C15 as stated: on a 207 the entries other than the path listed (with or
\* without a trailing separator) are returned in the order of the body, every
\* container as a directory name and every non-container as a file name, the
\* name being the last path segment.
C15_EveryEntryListed ==
    (unit.fn = "list" /\ unit.st = "parsed") =>
        LET rest == Remaining(unit.blocks, unit.remote_path)
        IN  /\ unit.result.directories = Names(Containers(rest))
            /\ unit.result.files = Names(NonContainers(rest))

\* C15 amended: the same for the entries that have a name; a container that is
\* the service root, a non-container whose path ends with a separator and a
\* block without an href are in neither result.
C15_EveryNamedEntryListed ==
    (unit.fn = "list" /\ unit.st = "parsed") =>
        LET rest == Named(Remaining(unit.blocks, unit.remote_path))
        IN  /\ unit.result.directories = Names(Containers(rest))
            /\ unit.result.files = Names(NonContainers(rest))
            /\ Len(unit.result.directories) + Len(unit.result.files) = Len(rest)

\* the directory itself with a trailing separator, then a directory, then a file
C15_Witness ==
    /\ unit.fn = "list" /\ unit.st = "parsed"
    /\ unit.blocks = <<Block(ListerPath, TRUE, TRUE),
                       Block(ListerPath \o <<"sub">>, TRUE, TRUE),
                       Block(ListerPath \o <<"a.json">>, FALSE, FALSE)>>
    /\ unit.result = [files |-> <<"a.json">>, directories |-> <<"sub">>]

-----------------------------------------------------------------------------
(* Properties of the path codec *)

\* the number of separators string begins with, and the number it holds
RECURSIVE Leading(_)
Leading(string) ==
    IF string # <<>> /\ Head(string) = "/" THEN 1 + Leading(Tail(string)) ELSE 0

Separators(string) ==
    LET sep(c) == c = "/"
    IN  Len(SelectSeq(string, sep))

\* C16: a name from the listing, joined to the path listed, gets the URL whose
\* path part decodes to the joined path, which is the decoded href of the entry:
\* nothing is encoded twice.  When the remote reported the href percent-encoded
\* as quote encodes, the path part of the URL is that href (less a trailing
\* separator), whatever the depth of the directory.
C16_NoDoubleEncoding ==
    (unit.fn = "walk" /\ unit.st = "requested") =>
        /\ Head(unit.url) = base_url
        /\ unquote(Tail(unit.url)) = unit.child
        /\ unit.child = RStrip(unquote(unit.href))
        /\ quote(unquote(unit.href), {"/"}) = unit.href =>
              Tail(unit.url) = RStrip(unit.href)

\* the file named %20 in the directory named by a space: its href /x/%20/%2520
\* is the path part of its URL
C16_Witness ==
    /\ unit.fn = "walk" /\ unit.st = "requested"
    /\ unit.remote_path = <<"/", "x", "/", " ">>
    /\ unit.name = <<"%", "2", "0">>
    /\ unit.href = <<"/", "x", "/", "%", "2", "0", "/", "%", "2", "5", "2", "0">>
    /\ Tail(unit.url) = unit.href

\* C17 as stated: whatever the number of separators the path begins with, the
\* path part of the URL begins with one separator, and every separator of the
\* path is a separator of the URL.
C17_OneLeadingSeparator ==
    (unit.fn = "url" /\ unit.st = "built") =>
        /\ Leading(Tail(unit.url)) = 1
        /\ Separators(Tail(unit.url)) >= Separators(unit.path)

\* C17 amended: a path that begins with no separator gets one; a path that
\* begins with one or with several keeps them as they are.  Every separator of
\* the path is a separator of the URL and no other is added, and the path part
\* decodes to the path with its leading separator.
C17_LeadingSeparatorAddedWhenMissing ==
    (unit.fn = "url" /\ unit.st = "built") =>
        LET added == IF Leading(unit.path) = 0 THEN 1 ELSE 0
            url_path == Tail(unit.url)
        IN  /\ Head(unit.url) = base_url
            /\ Leading(url_path) = Leading(unit.path) + added
            /\ Separators(url_path) = Separators(unit.path) + added
            /\ unquote(url_path) =
                  (IF added = 1 THEN <<"/">> ELSE <<>>) \o unit.path

\* a path without a leading separator
C17_Witness ==
    /\ unit.fn = "url" /\ unit.st = "built"
    /\ unit.path = <<"x", "/", "x", " ">>
    /\ unit.url = <<base_url, "/", "x", "/", "x", "%", "2", "0">>

-----------------------------------------------------------------------------
(* Termination of a download run *)

\* no retry loop has sent more than max_retries requests and no directory has
\* been walked or listed twice
C18_Bounded ==
    /\ call.reqs <= max_retries /\ call.attempt <= max_retries
    /\ \A k \in DOMAIN calls : k[1] \in {"walk", "list"} => calls[k] = 1

====
